---------------------------- MODULE Spec2Model ----------------------------
(***************************************************************************)
(* A model of the seg-toolbox command line harness:                        *)
(*   - IntruderTest.run           (src/src/tests/intruder.py)              *)
(*   - CookieVerificationTest.run (src/src/tests/cookie_verification.py)   *)
(*   - discover_tests and main    (src/src/main.py)                        *)
(*   - save_result_csv            (src/src/utils/results.py)               *)
(* Strings whose content the code inspects are sequences of one-character  *)
(* strings, so that strip(), lower() and split(",") are computed.          *)
(***************************************************************************)
EXTENDS Integers, Sequences, FiniteSets, TLC

\* ------------------------------------------------------------------ bounds
MaxTotal == 3
MaxConcurrency == 2
MaxCookies == 2
MaxModules == 4
MaxSaves == 2
MaxClock == 2
MaxLines == 3

\* A future that is not done yet, a call that has not returned yet.
Pending == [pending |-> TRUE]
\* A worker thread that executes no request.
Idle == {}
\* An input the operator's bundle does not hold (inputs.get gives None), and
\* one it holds.
Missing == [given |-> FALSE]
Given(s) == [given |-> TRUE, text |-> s]

VARIABLES
    \* --- a probe's run(): IntruderTest.run or CookieVerificationTest.run
    probe,           \* the probe whose run() was called, "none" before the call
    blank_target,    \* whether the target given was missing, empty or all blanks
    pc,              \* position of the calling thread inside run()
    target,          \* normalised target
    total,           \* normalised total
    concurrency,     \* normalised concurrency
    submitted,       \* loop variable i of the submit loop: futures created so far
    queue,           \* executor work queue: indices submitted and not yet started
    running,         \* worker thread -> {index of the request it executes}, or Idle
    done,            \* index -> outcome of its finished future, or Pending
    yielded,         \* indices whose future as_completed has already yielded
    results,         \* list results
    status_counter,  \* dict status_counter
    errors,          \* counter errors
    latencies,       \* list latencies
    attempts,        \* index -> number of calls of _worker_request for it
    http_requests,   \* number of HTTP requests put on the wire
    header_prompts,  \* number of times the operator was asked to paste headers
    ret,             \* what run() returned, or Pending
    \* --- CookieVerificationTest.run
    exclude_input,   \* the raw "exclude_list" input
    response,        \* what the HTTP request of the cookie probe came to
    steps,           \* the steps of the cookie probe executed so far
    \* --- main
    pc_main,         \* position inside main()
    modules,         \* the modules pkgutil.iter_modules finds, in its order
    tests,           \* list tests
    choice,          \* the last menu choice read
    selected,        \* index (from 1) of the probe selected, 0 when none
    raised_step,     \* the step of the last execution that raised, or "none"
    last_event,      \* what the last loop iteration did
    \* --- save_result_csv
    clock,           \* the wall clock, in seconds
    files,           \* path -> rows of the file, for the files that exist
    saves,           \* the calls of save_result_csv made so far
    \* --- the inputs of IntruderTest.run
    pc_paste,        \* position inside the reading and parsing of the headers
    pasted,          \* list lines of _read_multiline_headers
    headers,         \* dict headers of _parse_headers
    inputs,          \* the raw "total", "concurrency" and "timeout" inputs
    normalized       \* what run() made of them, or Pending

intruderVars == <<probe, blank_target, pc, target, total, concurrency, submitted, queue, running, done,
                  yielded, results, status_counter, errors, latencies, attempts,
                  http_requests, header_prompts, ret>>

cookieVars == <<exclude_input, response, steps>>

mainVars == <<pc_main, modules, tests, choice, selected, raised_step, last_event>>

csvVars == <<clock, files, saves>>

inputVars == <<pc_paste, pasted, headers, inputs, normalized>>

vars == <<intruderVars, cookieVars, mainVars, csvVars, inputVars>>

\* ----------------------------------------------------------------- strings
IsSpace(c) == c = " "

RECURSIVE LStrip(_)
LStrip(s) == IF s = <<>> THEN s
             ELSE IF IsSpace(Head(s)) THEN LStrip(Tail(s)) ELSE s

RECURSIVE RStrip(_)
RStrip(s) == IF s = <<>> THEN s
             ELSE IF IsSpace(s[Len(s)]) THEN RStrip(SubSeq(s, 1, Len(s) - 1)) ELSE s

\* A run() that forgets .strip().
Strip_Forgotten(s) == s

\* str.strip()
Strip(s) == RStrip(LStrip(s))

\* d[k] = v on a dictionary d
With(d, k, v) == [x \in DOMAIN d \cup {k} |-> IF x = k THEN v ELSE d[x]]

\* (inputs.get(key) or "")
OrEmpty(v) == IF v.given THEN v.text ELSE <<>>

\* The index of the first c in s, 0 when there is none.
RECURSIVE IndexOf(_, _)
IndexOf(s, c) ==
    IF s = <<>> THEN 0
    ELSE IF Head(s) = c THEN 1
    ELSE LET k == IndexOf(Tail(s), c) IN IF k = 0 THEN 0 ELSE k + 1

\* c in s
Contains(s, c) == IndexOf(s, c) # 0

\* s.split(c)
RECURSIVE Split(_, _)
Split(s, c) ==
    LET k == IndexOf(s, c) IN
    IF k = 0 THEN <<s>>
    ELSE <<SubSeq(s, 1, k - 1)>> \o Split(SubSeq(s, k + 1, Len(s)), c)

\* s.split(c, 1), for an s that holds c
SplitOnce(s, c) ==
    LET k == IndexOf(s, c) IN <<SubSeq(s, 1, k - 1), SubSeq(s, k + 1, Len(s))>>

UpperCase == <<"A", "B", "C", "D", "E", "F", "G", "H", "I", "J", "K", "L", "M",
               "N", "O", "P", "Q", "R", "S", "T", "U", "V", "W", "X", "Y", "Z">>
LowerCase == <<"a", "b", "c", "d", "e", "f", "g", "h", "i", "j", "k", "l", "m",
               "n", "o", "p", "q", "r", "s", "t", "u", "v", "w", "x", "y", "z">>

LowerChar(c) == LET k == IndexOf(UpperCase, c) IN IF k = 0 THEN c ELSE LowerCase[k]

\* str.lower()
Lower(s) == [k \in 1..Len(s) |-> LowerChar(s[k])]

\* The raw values the operator may supply for "target": missing, empty,
\* whitespace only, and URLs with and without surrounding whitespace.
TargetInputs ==
    {Missing, Given(<<>>), Given(<<" ">>), Given(<<" ", " ">>),
     Given(<<"u">>), Given(<<" ", "u">>), Given(<<"u", " ">>),
     Given(<<" ", "u", " ">>)}

\* ------------------------------------------------------- IntruderTest.run
Indices == 0..(MaxTotal - 1)
StatusCodes == {200, 500}
\* The rounded time a call took.
Elapsed == {1}

\* What one HTTP attempt can come to: a response with a status code, or an
\* exception raised by the requests library.
Responses == [kind : {"response"}, status_code : StatusCodes]
                \cup [kind : {"exception"}]

\* A future whose call ended by raising: fut.result() raises it again.
Raised == [raised |-> TRUE]

\* A _worker_request without its except clause.
WorkerOutcome_NoExcept(index, resp, elapsed) ==
    IF resp.kind = "response"
    THEN [index |-> index, ok |-> TRUE, status_code |-> resp.status_code,
          reason |-> "reason", elapsed_seconds |-> elapsed]
    ELSE Raised

\* _worker_request: the dictionary built from the attempt.
WorkerOutcome(index, resp, elapsed) ==
    IF resp.kind = "response"
    THEN [index |-> index, ok |-> TRUE, status_code |-> resp.status_code,
          reason |-> "reason", elapsed_seconds |-> elapsed]
    ELSE [index |-> index, ok |-> FALSE, error |-> "error",
          elapsed_seconds |-> elapsed]

\* "if not target"
NotTarget(tgt) == tgt = <<>>

\* Whether a raw input is missing, empty or made of whitespace only.
IsBlank(v) == ~v.given \/ \A k \in 1..Len(v.text) : IsSpace(v.text[k])

Min(a, b) == IF a <= b THEN a ELSE b

\* results[:100]
DetailsSample == 100

\* A pool with one thread per request.
MaxWorkers_PerRequest(c, t) == t

\* max_workers = min(concurrency, total)
MaxWorkers(c, t) == Min(c, t)

IntruderInit ==
    /\ probe = "none"
    /\ blank_target = FALSE
    /\ pc = "idle"
    /\ target = <<>>
    /\ total = 1
    /\ concurrency = 1
    /\ submitted = 0
    /\ queue = <<>>
    /\ running = <<>>
    /\ done = [i \in {} |-> Pending]
    /\ yielded = {}
    /\ results = <<>>
    /\ status_counter = <<>>
    /\ errors = 0
    /\ latencies = <<>>
    /\ attempts = [i \in Indices |-> 0]
    /\ http_requests = 0
    /\ header_prompts = 0
    /\ ret = Pending


\* run(), from its entry to the creation of the executor: the inputs are
\* normalised; an empty target returns the error result at once; otherwise
\* the headers are read from the operator and the pool is created.
RunStart ==
    /\ UNCHANGED <<cookieVars, mainVars, csvVars, inputVars>>
    /\ pc = "idle"
    /\ \E rawTarget \in TargetInputs, t \in 1..MaxTotal, c \in 1..MaxConcurrency :
         LET tgt == Strip(OrEmpty(rawTarget)) IN
         /\ probe' = "intruder"
         /\ blank_target' = IsBlank(rawTarget)
         /\ target' = tgt
         /\ total' = t
         /\ concurrency' = c
         /\ IF NotTarget(tgt)
            THEN /\ ret' = [error |-> "target (URL) nao informado."]
                 /\ pc' = "returned"
                 /\ UNCHANGED <<header_prompts, running, done>>
            ELSE /\ header_prompts' = header_prompts + 1
                 /\ running' = [w \in 1..MaxWorkers(c, t) |-> Idle]
                 /\ done' = [i \in 0..(t - 1) |-> Pending]
                 /\ pc' = "submit"
                 /\ ret' = Pending
    /\ UNCHANGED <<submitted, queue, yielded, results, status_counter, errors,
                   latencies, attempts, http_requests>>

\* One iteration of "for i in range(total): executor.submit(...)".
Submit ==
    /\ UNCHANGED <<cookieVars, mainVars, csvVars, inputVars>>
    /\ pc = "submit"
    /\ submitted < total
    /\ queue' = Append(queue, submitted)
    /\ submitted' = submitted + 1
    /\ pc' = IF submitted + 1 = total THEN "collect" ELSE "submit"
    /\ UNCHANGED <<probe, blank_target, target, total, concurrency, running,
                   done, yielded, results, status_counter, errors, latencies,
                   attempts, http_requests, header_prompts, ret>>

\* An idle worker thread takes the oldest queued work item and starts
\* _worker_request for it: the HTTP request goes out.
WorkerStart(w) ==
    /\ UNCHANGED <<cookieVars, mainVars, csvVars, inputVars>>
    /\ pc \in {"submit", "collect"}
    /\ w \in DOMAIN running
    /\ running[w] = Idle
    /\ queue # <<>>
    /\ running' = [running EXCEPT ![w] = {Head(queue)}]
    /\ queue' = Tail(queue)
    /\ attempts' = [attempts EXCEPT ![Head(queue)] = @ + 1]
    /\ http_requests' = http_requests + 1
    /\ UNCHANGED <<probe, blank_target, pc, target, total, concurrency,
                   submitted, done, yielded, results, status_counter, errors,
                   latencies, header_prompts, ret>>

\* The request of worker w ends, with a response or with an exception;
\* _worker_request returns its dictionary and the future is done.
WorkerFinish(w) ==
    /\ UNCHANGED <<cookieVars, mainVars, csvVars, inputVars>>
    /\ pc \in {"submit", "collect"}
    /\ w \in DOMAIN running
    /\ running[w] # Idle
    /\ \E resp \in Responses, e \in Elapsed, i \in running[w] :
         done' = [done EXCEPT ![i] = WorkerOutcome(i, resp, e)]
    /\ running' = [running EXCEPT ![w] = Idle]
    /\ UNCHANGED <<probe, blank_target, pc, target, total, concurrency,
                   submitted, queue, yielded, results, status_counter, errors,
                   latencies, attempts, http_requests, header_prompts, ret>>

\* An update of the histogram that starts from 0 whatever the entry holds.
CountStatus_LostUpdate(counter, code) == With(counter, ToString(code), 1)

\* status_counter[code_key] = status_counter.get(code_key, 0) + 1
CountStatus(counter, code) ==
    LET code_key == ToString(code) IN
    With(counter, code_key,
         (IF code_key \in DOMAIN counter THEN counter[code_key] ELSE 0) + 1)

\* An as_completed that yields a finished future again.
Completed_Again == {i \in DOMAIN done : done[i] # Pending}

\* The futures as_completed may yield next: done and not yet yielded.
Completed == {i \in DOMAIN done : done[i] # Pending /\ i \notin yielded}

\* One iteration of "for fut in as_completed(futures)": fut.result() and the
\* body under _LOCK.
Collect(i) ==
    /\ UNCHANGED <<cookieVars, mainVars, csvVars, inputVars>>
    /\ pc = "collect"
    /\ i \in Completed
    /\ LET res == done[i] IN
         IF res = Raised
         THEN /\ pc' = "raised"
              /\ UNCHANGED <<results, status_counter, errors, latencies>>
         ELSE /\ results' = Append(results, res)
              /\ IF res.ok
                 THEN /\ status_counter' =
                           CountStatus(status_counter, res.status_code)
                      /\ UNCHANGED errors
                 ELSE /\ errors' = errors + 1
                      /\ UNCHANGED status_counter
              /\ latencies' = IF "elapsed_seconds" \in DOMAIN res
                              THEN Append(latencies, res.elapsed_seconds)
                              ELSE latencies
              /\ UNCHANGED pc
    /\ yielded' = yielded \cup {i}
    /\ UNCHANGED <<probe, blank_target, target, total, concurrency, submitted,
                   queue, running, done, attempts, http_requests,
                   header_prompts, ret>>

\* A count of the failures that leaves out the "not".
RECURSIVE CountOk_NoNot(_, _)
CountOk_NoNot(rs, want) ==
    IF rs = <<>> THEN 0
    ELSE (IF Head(rs).ok THEN 1 ELSE 0) + CountOk_NoNot(Tail(rs), want)

\* sum(1 for r in results if P(r))
RECURSIVE CountOk(_, _)
CountOk(rs, want) ==
    IF rs = <<>> THEN 0
    ELSE (IF Head(rs).ok = want THEN 1 ELSE 0) + CountOk(Tail(rs), want)

\* The summary dictionary (the latency statistics are left out).
Summary ==
    [target |-> target,
     total_requested |-> total,
     concurrency |-> concurrency,
     requests_sent |-> Len(results),
     successes |-> CountOk(results, TRUE),
     failures |-> CountOk(results, FALSE),
     errors |-> errors,
     status_counts |-> status_counter,
     details_sample |-> SubSeq(results, 1, Min(Len(results), DetailsSample))]

\* A loop that is left as soon as a failed outcome was collected.
Exhausted_OnFailure ==
    \/ yielded = DOMAIN done
    \/ \E k \in 1..Len(results) : ~results[k].ok

\* "for fut in as_completed(futures)" ends: every future was yielded.
Exhausted == yielded = DOMAIN done

\* as_completed is exhausted once every future was yielded; the executor is
\* shut down, the statistics are computed and run() returns the summary.
Summarize ==
    /\ UNCHANGED <<cookieVars, mainVars, csvVars, inputVars>>
    /\ pc = "collect"
    /\ Exhausted
    /\ ret' = Summary
    /\ pc' = "returned"
    /\ UNCHANGED <<probe, blank_target, target, total, concurrency, submitted,
                   queue, running, done, yielded, results, status_counter,
                   errors, latencies, attempts, http_requests, header_prompts>>

\* ----------------------------------------- CookieVerificationTest.run
\* The value None where a string may stand (no string is made of it).
NoneStr == <<"None">>

kSecure == <<"s", "e", "c", "u", "r", "e">>
kHttpOnly == <<"h", "t", "t", "p", "o", "n", "l", "y">>
kSameSite == <<"s", "a", "m", "e", "s", "i", "t", "e">>

\* The loop over parts[1:] of _parse_set_cookie: the flags and attrs after
\* the attribute segments in parts.
RECURSIVE ParseAttrs(_, _)
ParseAttrs(parts, acc) ==
    IF parts = <<>> THEN acc
    ELSE LET attr == Head(parts) IN
         IF attr = <<>> THEN ParseAttrs(Tail(parts), acc)
         ELSE IF Contains(attr, "=")
         THEN LET kv == SplitOnce(attr, "=")
                  k == Lower(Strip(kv[1]))
                  v == Strip(kv[2])
                  attrs == With(acc.attrs, k, v)
                  flags == IF k = kSameSite
                           THEN [acc.flags EXCEPT !.samesite = v]
                           ELSE acc.flags
              IN ParseAttrs(Tail(parts), [flags |-> flags, attrs |-> attrs])
         ELSE LET token == Lower(Strip(attr))
                  flags == IF token = kSecure
                           THEN [acc.flags EXCEPT !.secure = TRUE]
                           ELSE IF token = kHttpOnly
                           THEN [acc.flags EXCEPT !.httponly = TRUE]
                           ELSE acc.flags
              IN ParseAttrs(Tail(parts), [flags |-> flags, attrs |-> acc.attrs])

\* _parse_set_cookie
ParseSetCookie(header_value) ==
    LET raw_parts == Split(header_value, ";")
        parts == [k \in 1..Len(raw_parts) |-> Strip(raw_parts[k])]
        first == parts[1]
        nv == IF Contains(first, "=")
              THEN LET p == SplitOnce(first, "=") IN <<Strip(p[1]), Strip(p[2])>>
              ELSE <<Strip(first), <<>>>>
        fa == ParseAttrs(Tail(parts),
                         [flags |-> [secure |-> FALSE, httponly |-> FALSE,
                                     samesite |-> NoneStr],
                          attrs |-> <<>>])
    IN [raw |-> header_value, name |-> nv[1], value |-> nv[2],
        flags |-> fa.flags, attrs |-> fa.attrs]

\* [x for x in xs if x]
RECURSIVE NonEmpty(_)
NonEmpty(xs) ==
    IF xs = <<>> THEN <<>>
    ELSE (IF Head(xs) = <<>> THEN <<>> ELSE <<Head(xs)>>) \o NonEmpty(Tail(xs))

\* exclude_names: the entries of the stripped input, split at the commas,
\* each stripped, the empty ones dropped.
ExcludeNames(raw) ==
    LET pieces == Split(Strip(OrEmpty(raw)), ",")
    IN NonEmpty([k \in 1..Len(pieces) |-> Strip(pieces[k])])

\* exclude_lower
ExcludeLower(raw) ==
    LET names == ExcludeNames(raw) IN [k \in 1..Len(names) |-> Lower(names[k])]

InList(x, xs) == \E k \in 1..Len(xs) : xs[k] = x

\* An evaluation that looks the name up as it is written.
MissingFlags_NameAsWritten(cookie, exclude_lower) ==
    IF ~InList(cookie.name, exclude_lower)
    THEN (IF ~cookie.flags.secure THEN <<"Secure">> ELSE <<>>)
         \o (IF ~cookie.flags.httponly THEN <<"HttpOnly">> ELSE <<>>)
         \o (IF cookie.flags.samesite = NoneStr THEN <<"SameSite">> ELSE <<>>)
    ELSE <<>>

\* The list "missing" built for one cookie by the evaluation loop.
MissingFlags(cookie, exclude_lower) ==
    LET lname == Lower(cookie.name) IN
    IF ~InList(lname, exclude_lower)
    THEN (IF ~cookie.flags.secure THEN <<"Secure">> ELSE <<>>)
         \o (IF ~cookie.flags.httponly THEN <<"HttpOnly">> ELSE <<>>)
         \o (IF cookie.flags.samesite = NoneStr THEN <<"SameSite">> ELSE <<>>)
    ELSE <<>>

\* The evaluation loop: the warnings for the parsed cookies, in their order.
\* A warning "Cookie '<name>' missing flags: <a>, <b>" is the pair of the
\* name and the list that is joined into it.
RECURSIVE Warnings(_, _)
Warnings(parsed, exclude_lower) ==
    IF parsed = <<>> THEN <<>>
    ELSE LET missing == MissingFlags(Head(parsed), exclude_lower) IN
         (IF missing # <<>>
          THEN <<[cookie |-> Head(parsed).name, missing |-> missing]>>
          ELSE <<>>) \o Warnings(Tail(parsed), exclude_lower)

\* The result dictionary as it is before the request.
BaseResult(tgt) ==
    [target |-> tgt, raw_set_cookie_headers |-> <<>>, cookies |-> <<>>,
     warnings |-> <<>>]

\* An except branch that does not record the duration.
FailedResult_NoDuration(tgt, duration) ==
    With(BaseResult(tgt), "error", "Request failed")

\* The result returned from the except branch of the request.
FailedResult(tgt, duration) ==
    With(With(BaseResult(tgt), "error", "Request failed"),
         "duration_seconds", duration)

\* The result returned after the evaluation.
FullResult(tgt, sc_list, parsed, warnings, status_code, duration) ==
    With(With(With(With(With(BaseResult(tgt),
         "raw_set_cookie_headers", sc_list),
         "cookies", parsed),
         "warnings", warnings),
         "status_code", status_code),
         "duration_seconds", duration)

\* The Set-Cookie header values a server may send.
CookieNames == {<<"S", "i", "D">>, <<"t", "k">>}
AttrSecure == <<";", " ", "S", "e", "c", "u", "r", "e">>
AttrHttpOnly == <<";", " ", "H", "t", "t", "p", "O", "n", "l", "y">>
AttrSameSite == <<";", " ", "S", "a", "m", "e", "S", "i", "t", "e", "=", "L", "a", "x">>
SetCookieHeaders ==
    {n \o <<"=", "v">> \o a \o b \o c :
        n \in CookieNames, a \in {<<>>, AttrSecure}, b \in {<<>>, AttrHttpOnly},
        c \in {<<>>, AttrSameSite}}

CookieResponses ==
    [kind : {"response"}, status_code : {200},
     set_cookie : UNION {[1..n -> SetCookieHeaders] : n \in 0..MaxCookies}]
        \cup [kind : {"exception"}]

\* The raw values the operator may supply for "exclude_list".
ExcludeInputs ==
    {Missing, Given(<<>>), Given(<<"s", "i", "d">>), Given(<<"S", "I", "D">>),
     Given(<<" ", "t", "k", " ", ",", "s", "i", "D">>),
     Given(<<",", "T", "K", ",", ",">>), Given(<<"i", "d">>)}

NoResponse == [kind |-> "none"]

CookieInit ==
    /\ exclude_input = Missing
    /\ response = NoResponse
    /\ steps = {}

\* The parsed record of each header value and the exclusion list of each
\* input, as written and lowercased, computed once.
ParsedOf[h \in SetCookieHeaders] == ParseSetCookie(h)
ExcludeLowerOf[raw \in ExcludeInputs] == ExcludeLower(raw)
ExcludeNamesOf[raw \in ExcludeInputs] == ExcludeNames(raw)

\* CookieVerificationTest.run, from its entry to the reading of the pasted
\* headers: the inputs are normalised and an empty target returns the error
\* result at once.
CookieStart ==
    /\ UNCHANGED <<mainVars, csvVars, inputVars>>
    /\ pc = "idle"
    /\ \E rawTarget \in TargetInputs, rawExclude \in ExcludeInputs :
         LET tgt == Strip(OrEmpty(rawTarget)) IN
         /\ probe' = "cookie-verification"
         /\ blank_target' = IsBlank(rawTarget)
         /\ target' = tgt
         /\ exclude_input' = rawExclude
         /\ IF NotTarget(tgt)
            THEN /\ ret' = [error |-> "target (URL) nao informado."]
                 /\ pc' = "returned"
                 /\ UNCHANGED header_prompts
            ELSE /\ header_prompts' = header_prompts + 1
                 /\ pc' = "request"
                 /\ UNCHANGED ret
    /\ UNCHANGED <<total, concurrency, submitted, queue, running, done,
                   yielded, results, status_counter, errors, latencies,
                   attempts, http_requests, response, steps>>

\* CookieVerificationTest.run, from the request to its return.
CookieRequest ==
    /\ UNCHANGED <<mainVars, csvVars, inputVars>>
    /\ pc = "request"
    /\ \E resp \in CookieResponses, duration \in Elapsed :
         /\ http_requests' = http_requests + 1
         /\ response' = resp
         /\ IF resp.kind = "exception"
            THEN /\ ret' = FailedResult(target, duration)
                 /\ steps' = {"request"}
            ELSE LET sc_list == resp.set_cookie
                     parsed == [k \in 1..Len(sc_list) |-> ParsedOf[sc_list[k]]]
                     warnings == Warnings(parsed, ExcludeLowerOf[exclude_input])
                 IN /\ ret' = FullResult(target, sc_list, parsed, warnings,
                                         resp.status_code, duration)
                    /\ steps' = {"request", "extract", "parse", "evaluate"}
    /\ pc' = "returned"
    /\ UNCHANGED <<probe, blank_target, target, exclude_input, total,
                   concurrency, submitted, queue, running, done, yielded,
                   results, status_counter, errors, latencies, attempts,
                   header_prompts>>


\* -------------------------------------------------------- discover_tests
\* A module of the tests package, as discover_tests sees it:
\*   private    its name starts with "_"
\*   import_ok  importing it does not raise
\*   test       its attribute "test": a BaseTest instance, another object,
\*              or absent
\*   classes    its classes in the order of inspect.getmembers, each BaseTest
\*              itself ("base"), no subclass of it ("unrelated"), a subclass
\*              that can be constructed ("concrete") or one whose constructor
\*              raises ("failing")
Module(private, import_ok, test, classes) ==
    [private |-> private, import_ok |-> import_ok, test |-> test,
     classes |-> classes]

ModuleKinds ==
    {Module(TRUE, TRUE, "instance", <<>>),
     Module(FALSE, FALSE, "absent", <<>>),
     Module(FALSE, TRUE, "instance", <<"base", "concrete">>),
     Module(FALSE, TRUE, "other", <<"base", "failing", "concrete">>),
     Module(FALSE, TRUE, "absent", <<"base", "unrelated">>)}

ModuleLists == UNION {[1..n -> ModuleKinds] : n \in 0..MaxModules}

\* The probe taken from module m: its attribute "test" (origin 0) or an
\* instance of its class number origin.
Probe(m, origin) == [module |-> m, origin |-> origin]

\* What discover_tests has when it ends: the list, the number of errors
\* logged, and whether it ended by raising.
Discovered(ts, logged, raised) == [tests |-> ts, logged |-> logged, raised |-> raised]

\* The loop over inspect.getmembers(mod, inspect.isclass), from class k on.
RECURSIVE ClassProbes(_, _, _)
ClassProbes(m, classes, k) ==
    IF k > Len(classes) THEN Discovered(<<>>, 0, FALSE)
    ELSE LET rest == ClassProbes(m, classes, k + 1) IN
         IF classes[k] \in {"base", "unrelated"} THEN rest
         ELSE IF classes[k] = "concrete"
         THEN Discovered(<<Probe(m, k)>> \o rest.tests, rest.logged, rest.raised)
         ELSE Discovered(rest.tests, rest.logged + 1, rest.raised)

\* A discovery that lets the import error of a module escape.
RECURSIVE DiscoverFrom_ImportRaises(_, _)
DiscoverFrom_ImportRaises(mods, m) ==
    IF m > Len(mods) THEN Discovered(<<>>, 0, FALSE)
    ELSE IF mods[m].private THEN DiscoverFrom_ImportRaises(mods, m + 1)
    ELSE IF ~mods[m].import_ok THEN Discovered(<<>>, 0, TRUE)
    ELSE LET rest == DiscoverFrom_ImportRaises(mods, m + 1)
             mine == IF mods[m].test = "instance"
                     THEN Discovered(<<Probe(m, 0)>>, 0, FALSE)
                     ELSE ClassProbes(m, mods[m].classes, 1)
         IN Discovered(IF rest.raised THEN <<>> ELSE mine.tests \o rest.tests,
                       mine.logged + rest.logged, rest.raised)

\* The loop over pkgutil.iter_modules, from module m on.
RECURSIVE DiscoverFrom(_, _)
DiscoverFrom(mods, m) ==
    IF m > Len(mods) THEN Discovered(<<>>, 0, FALSE)
    ELSE LET rest == DiscoverFrom(mods, m + 1) IN
         IF mods[m].private THEN rest
         ELSE IF ~mods[m].import_ok
         THEN Discovered(rest.tests, rest.logged + 1, rest.raised)
         ELSE LET mine == IF mods[m].test = "instance"
                          THEN Discovered(<<Probe(m, 0)>>, 0, FALSE)
                          ELSE ClassProbes(m, mods[m].classes, 1)
              IN Discovered(mine.tests \o rest.tests, mine.logged + rest.logged,
                            rest.raised)

\* discover_tests
DiscoverTests(mods) == DiscoverFrom(mods, 1)

\* ------------------------------------------------------------------ main
Digits == <<"0", "1", "2", "3", "4", "5", "6", "7", "8", "9">>

IsDigit(c) == IndexOf(Digits, c) # 0

\* The number the digits of s write.
RECURSIVE DigitsValue(_)
DigitsValue(s) ==
    IF s = <<>> THEN 0
    ELSE DigitsValue(SubSeq(s, 1, Len(s) - 1)) * 10 + (IndexOf(Digits, s[Len(s)]) - 1)

\* int(s): whether s is the text of an integer, and the integer.
ParseInt(s) ==
    LET signed == s # <<>> /\ Head(s) \in {"-", "+"}
        digits == IF signed THEN Tail(s) ELSE s
        ok == digits # <<>> /\ \A k \in 1..Len(digits) : IsDigit(digits[k])
    IN [ok |-> ok,
        value |-> IF ~ok THEN 0
                  ELSE IF signed /\ Head(s) = "-" THEN 0 - DigitsValue(digits)
                  ELSE DigitsValue(digits)]

\* What the operator may type at the menu.
Choices ==
    {<<"0">>, <<"0", "0">>, <<"-", "1">>, <<"x">>, <<>>}
        \cup {<<Digits[k + 1]>> : k \in 1..(MaxModules + 1)}

\* The steps inside the try block of the loop, in their order: each may raise.
TrySteps == <<"run", "enrich", "print", "ask", "save">>

\* A loop whose try block holds the call of run() only.
InTry_RunOnly(step) == step = "run"

\* Whether the step is inside the try block.
InTry(step) == \E k \in 1..Len(TrySteps) : TrySteps[k] = step

MainInit ==
    /\ pc_main = "start"
    /\ modules = <<>>
    /\ tests = <<>>
    /\ choice = <<>>
    /\ selected = 0
    /\ raised_step = "none"
    /\ last_event = "none"

\* main(), from its entry to the first menu: the probes are discovered; with
\* none, main returns.
MainStart ==
    /\ pc_main = "start"
    /\ \E mods \in ModuleLists :
         LET d == DiscoverTests(mods) IN
         /\ modules' = mods
         /\ IF d.raised
            THEN /\ pc_main' = "crashed"
                 /\ UNCHANGED tests
            ELSE /\ tests' = d.tests
                 /\ pc_main' = IF d.tests = <<>> THEN "no_tests" ELSE "menu"
    /\ UNCHANGED <<choice, selected, raised_step, last_event>>
    /\ UNCHANGED <<intruderVars, cookieVars, csvVars, inputVars>>

\* The menu is printed and a choice is read: "0" leaves the loop, a number
\* of the menu selects its probe, anything else prints the menu again.
Choose ==
    /\ pc_main = "menu"
    /\ raised_step' = "none"
    /\ \E c \in Choices :
         /\ choice' = c
         /\ IF c = <<"0">>
            THEN /\ pc_main' = "exited"
                 /\ last_event' = "exit"
                 /\ UNCHANGED selected
            ELSE LET n == ParseInt(c)
                     idx == n.value - 1
                 IN IF ~n.ok \/ idx < 0 \/ idx >= Len(tests)
                    THEN /\ pc_main' = "menu"
                         /\ last_event' = "invalid"
                         /\ selected' = 0
                    ELSE /\ pc_main' = "selected"
                         /\ last_event' = "selected"
                         /\ selected' = idx + 1
    /\ UNCHANGED <<modules, tests>>
    /\ UNCHANGED <<intruderVars, cookieVars, csvVars, inputVars>>

\* The inputs of the selected probe are read and the try block is executed:
\* run, enrich_result, pretty_print_result, ask_save_result and the save.
\* Any of them may raise; what is raised inside the try block is logged.
Execute ==
    /\ pc_main = "selected"
    /\ \E step \in {"none"} \cup {TrySteps[k] : k \in 1..Len(TrySteps)} :
         /\ raised_step' = step
         /\ IF step = "none"
            THEN /\ pc_main' = "menu"
                 /\ last_event' = "executed"
            ELSE IF InTry(step)
            THEN /\ pc_main' = "menu"
                 /\ last_event' = "error_logged"
            ELSE /\ pc_main' = "crashed"
                 /\ last_event' = "traceback"
    /\ UNCHANGED <<modules, tests, choice, selected>>
    /\ UNCHANGED <<intruderVars, cookieVars, csvVars, inputVars>>

\* -------------------------------------------------------- save_result_csv
\* The characters of the keys, in the order of their code points.
CodeOrder == <<"_">> \o LowerCase

\* a < b for two strings, as Python compares them.
RECURSIVE LexLess(_, _)
LexLess(a, b) ==
    IF b = <<>> THEN FALSE
    ELSE IF a = <<>> THEN TRUE
    ELSE IF Head(a) = Head(b) THEN LexLess(Tail(a), Tail(b))
    ELSE IndexOf(CodeOrder, Head(a)) < IndexOf(CodeOrder, Head(b))

\* sorted(keys)
RECURSIVE Sorted(_)
Sorted(keys) ==
    IF keys = {} THEN <<>>
    ELSE LET least == CHOOSE k \in keys : \A o \in keys \ {k} : LexLess(k, o)
         IN <<least>> \o Sorted(keys \ {least})

kError == <<"e", "r", "r", "o", "r">>
kErrors == <<"e", "r", "r", "o", "r", "s">>
kTarget == <<"t", "a", "r", "g", "e", "t">>
kTestName == <<"t", "e", "s", "t", "_", "n", "a", "m", "e">>
kDetails == <<"d", "e", "t", "a", "i", "l", "s", "_", "s", "a", "m", "p", "l", "e">>

\* The values of a result: None, a string, an integer, or a list or mapping
\* with the text json.dumps gives for it.
NoneValue == [kind |-> "none"]
StrValue(text) == [kind |-> "str", text |-> text]
IntValue(n) == [kind |-> "int", n |-> n]
JsonValue(text) == [kind |-> "other", text |-> text]

\* _normalize_value
NormalizeValue(v) ==
    CASE v.kind = "none" -> ""
      [] v.kind = "str" -> v.text
      [] v.kind = "int" -> ToString(v.n)
      [] v.kind = "other" -> v.text

\* result.get(k)
Get(result, k) == IF k \in DOMAIN result THEN result[k] ELSE NoneValue

\* Enriched results of a probe: the error result of a run without target,
\* and two summaries.
ErrorResult ==
    With(With(<<>>, kError, StrValue("target (URL) nao informado.")),
         kTestName, StrValue("probe"))
SummaryResult(n) ==
    With(With(With(With(<<>>, kTarget, StrValue("u")),
         kErrors, IntValue(n)),
         kDetails, JsonValue("[]")),
         kTestName, StrValue("probe"))
Results == {ErrorResult, SummaryResult(0), SummaryResult(1)}

TestNames == {"intruder", "cookie-verification"}

\* The values of the parameter filename: left out, and a name.
FilenameInputs == {[given |-> FALSE], [given |-> TRUE, text |-> "out.csv"]}

\* RESULTS_DIR / fname, with fname = filename or f"{test_name}-{ts}.csv": the
\* generated name is the pair of the probe's name and the second of the call.
OutPath(test_name, filename, now) ==
    IF filename.given /\ filename.text # ""
    THEN [fname |-> filename.text, test_name |-> "", ts |-> 0]
    ELSE [fname |-> "", test_name |-> test_name, ts |-> now]

\* A row of a file: the cells written, and for a data row the keys its
\* cells are the values of.
HeaderRow(keys) == [kind |-> "header", cells |-> keys, columns |-> keys]
DataRow(result, keys) ==
    [kind |-> "data",
     cells |-> [k \in 1..Len(keys) |-> NormalizeValue(Get(result, keys[k]))],
     columns |-> keys]

\* One second passes.
Tick ==
    /\ clock < MaxClock
    /\ clock' = clock + 1
    /\ UNCHANGED <<files, saves>>
    /\ UNCHANGED <<intruderVars, cookieVars, mainVars, inputVars>>

\* save_result_csv(test_name, result, filename)
SaveResultCsv ==
    /\ Len(saves) < MaxSaves
    /\ \E test_name \in TestNames, result \in Results, filename \in FilenameInputs :
         LET out_path == OutPath(test_name, filename, clock)
             keys == Sorted(DOMAIN result)
             write_header == out_path \notin DOMAIN files
             old == IF write_header THEN <<>> ELSE files[out_path]
             new == old \o (IF write_header THEN <<HeaderRow(keys)>> ELSE <<>>)
                        \o <<DataRow(result, keys)>>
         IN /\ files' = With(files, out_path, new)
            /\ saves' = Append(saves, [test_name |-> test_name, result |-> result,
                                       filename |-> filename, path |-> out_path,
                                       wrote_header |-> write_header])
    /\ UNCHANGED clock
    /\ UNCHANGED <<intruderVars, cookieVars, mainVars, inputVars>>

\* ----------------------------------------------------- specifications
\* -------------------------------------------- IntruderTest._parse_headers
Newline == "\n"

\* "\n".join(lines)
RECURSIVE JoinLines(_)
JoinLines(lines) ==
    IF lines = <<>> THEN <<>>
    ELSE IF Len(lines) = 1 THEN lines[1]
    ELSE lines[1] \o <<Newline>> \o JoinLines(Tail(lines))

\* raw.splitlines(): no empty last line after a final line break
SplitLines(raw) ==
    IF raw = <<>> THEN <<>>
    ELSE LET parts == Split(raw, Newline) IN
         IF parts[Len(parts)] = <<>> THEN SubSeq(parts, 1, Len(parts) - 1)
         ELSE parts

\* line.split(): the tokens between runs of whitespace
RECURSIVE SplitWs(_)
SplitWs(s) ==
    LET t == LStrip(s)
        k == IndexOf(t, " ")
    IN IF t = <<>> THEN <<>>
       ELSE IF k = 0 THEN <<t>>
       ELSE <<SubSeq(t, 1, k - 1)>> \o SplitWs(SubSeq(t, k + 1, Len(t)))

UpperChar(c) == LET k == IndexOf(LowerCase, c) IN IF k = 0 THEN c ELSE UpperCase[k]

\* str.upper()
Upper(s) == [k \in 1..Len(s) |-> UpperChar(s[k])]

\* sub in s
HasSubstring(s, sub) ==
    \E k \in 1..(Len(s) - Len(sub) + 1) : SubSeq(s, k, k + Len(sub) - 1) = sub

\* s.rstrip(chars)
RECURSIVE RStripChars(_, _)
RStripChars(s, chars) ==
    IF s = <<>> THEN s
    ELSE IF s[Len(s)] \in chars THEN RStripChars(SubSeq(s, 1, Len(s) - 1), chars)
    ELSE s

Methods == {<<"G", "E", "T">>,
            <<"P", "O", "S", "T">>,
            <<"P", "U", "T">>,
            <<"D", "E", "L", "E", "T", "E">>,
            <<"H", "E", "A", "D">>,
            <<"O", "P", "T", "I", "O", "N", "S">>,
            <<"P", "A", "T", "C", "H">>}
kHttp == <<"H", "T", "T", "P", "/">>
kCookieLower == <<"c", "o", "o", "k", "i", "e">>
SepCookie == <<";", " ">>
SepOther == <<",", " ">>

\* The test that makes a line a request line.
IsRequestLine(line) ==
    LET parts0 == SplitWs(line) IN
    /\ Len(parts0) >= 3
    /\ Upper(parts0[1]) \in Methods
    /\ HasSubstring(Upper(parts0[Len(parts0)]), kHttp)

\* The body of "if key in headers ... else ...".
MergeHeader(hs, key, value) ==
    IF key \in DOMAIN hs
    THEN IF Lower(key) = kCookieLower
         THEN With(hs, key, RStripChars(hs[key], {";", " "}) \o SepCookie \o value)
         ELSE With(hs, key, hs[key] \o SepOther \o value)
    ELSE With(hs, key, value)

\* One iteration of "for line in raw.splitlines()".
ParseLine(hs, rawLine) ==
    LET line == Strip(rawLine) IN
    IF line = <<>> THEN hs
    ELSE IF IsRequestLine(line) THEN hs
    ELSE IF ~Contains(line, ":") THEN hs
    ELSE LET kv == SplitOnce(line, ":")
         IN MergeHeader(hs, Strip(kv[1]), LStrip(kv[2]))

RECURSIVE ParseLines(_, _)
ParseLines(lines, hs) ==
    IF lines = <<>> THEN hs
    ELSE ParseLines(Tail(lines), ParseLine(hs, Head(lines)))

\* _parse_headers(raw)
ParseHeaders(raw) ==
    IF raw = <<>> THEN <<>> ELSE ParseLines(SplitLines(raw), <<>>)

\* The lines the operator may paste: a request line, headers with a key that
\* comes again, Cookie headers, one of them ending in ";" and one without a
\* value, a line without a colon, and a request line that holds a colon.
HeaderLines ==
    {<<"G", "E", "T", " ", "/", " ", "H", "T", "T", "P", "/", "1">>,
     <<"X", ":", " ", "a">>,
     <<" ", "X", " ", ":", "b">>,
     <<"C", "o", "o", "k", "i", "e", ":", " ", "a", ";">>,
     <<"C", "o", "o", "k", "i", "e", ":", "b">>,
     <<"C", "o", "o", "k", "i", "e", ":">>,
     <<"j", "u", "n", "k">>,
     <<"p", "u", "t", " ", "x", ":", " ", "h", "t", "t", "p", "/", "2">>}

InputsInit ==
    /\ pc_paste = "idle"
    /\ pasted = <<>>
    /\ headers = <<>>
    /\ inputs = [total |-> Missing, concurrency |-> Missing, timeout |-> Missing]
    /\ normalized = Pending

\* One iteration of the loop of _read_multiline_headers that reads a line
\* which is not blank: the line is appended to lines.
ReadLine ==
    /\ pc_paste \in {"idle", "reading"}
    /\ Len(pasted) < MaxLines
    /\ \E line \in HeaderLines : pasted' = Append(pasted, line)
    /\ pc_paste' = "reading"
    /\ UNCHANGED <<headers, inputs, normalized>>
    /\ UNCHANGED <<intruderVars, cookieVars, mainVars, csvVars>>

\* The operator ends the paste with a blank line: _read_multiline_headers
\* returns the lines joined and _parse_headers builds the dictionary.
ParsePasted ==
    /\ pc_paste \in {"idle", "reading"}
    /\ headers' = ParseHeaders(JoinLines(pasted))
    /\ pc_paste' = "parsed"
    /\ UNCHANGED <<pasted, inputs, normalized>>
    /\ UNCHANGED <<intruderVars, cookieVars, mainVars, csvVars>>

\* ---------------------------------- IntruderTest.run: the normalisation
\* int(s): the whitespace around the number is skipped.
IntOf(s) == ParseInt(Strip(s))

\* The number of digits of a positive number.
RECURSIVE NumDigits(_)
NumDigits(n) == IF n < 10 THEN 1 ELSE 1 + NumDigits(n \div 10)

\* The decimal exponents between which a double is finite and not zero.
MaxExp10 == 309
MinExp10 == 0 - 323

NaN == [kind |-> "nan"]
Infinity(negative) == [kind |-> "inf", negative |-> negative]
\* The double of value mantissa / 10^scale, with its sign.
Finite(negative, mantissa, scale) ==
    [kind |-> "finite", negative |-> negative, mantissa |-> mantissa,
     scale |-> IF mantissa = 0 THEN 0 ELSE scale]

\* The literal 5.0
DefaultTimeout == Finite(FALSE, 5, 0)

\* float(s): whether s is the text of a float, and the float. The text is
\* "nan", "inf" or "infinity" in any case, or digits with an optional point
\* and an optional exponent, with an optional sign and whitespace around.
FloatOf(s) ==
    LET t == Lower(Strip(s))
        signed == t # <<>> /\ Head(t) \in {"-", "+"}
        negative == signed /\ Head(t) = "-"
        body == IF signed THEN Tail(t) ELSE t
        ePos == IndexOf(body, "e")
        mant == IF ePos = 0 THEN body ELSE SubSeq(body, 1, ePos - 1)
        exp == IF ePos = 0 THEN [ok |-> TRUE, value |-> 0]
               ELSE ParseInt(SubSeq(body, ePos + 1, Len(body)))
        dot == IndexOf(mant, ".")
        whole == IF dot = 0 THEN mant ELSE SubSeq(mant, 1, dot - 1)
        frac == IF dot = 0 THEN <<>> ELSE SubSeq(mant, dot + 1, Len(mant))
        digits == whole \o frac
        ok == /\ digits # <<>>
              /\ \A k \in 1..Len(digits) : IsDigit(digits[k])
              /\ exp.ok
        mantissa == DigitsValue(digits)
        scale == Len(frac) - exp.value
        exp10 == NumDigits(mantissa) - scale
    IN IF body = <<"n", "a", "n">> THEN [ok |-> TRUE, value |-> NaN]
       ELSE IF body \in {<<"i", "n", "f">>,
                         <<"i", "n", "f", "i", "n", "i", "t", "y">>}
       THEN [ok |-> TRUE, value |-> Infinity(negative)]
       ELSE IF ~ok THEN [ok |-> FALSE, value |-> NaN]
       ELSE IF mantissa # 0 /\ exp10 > MaxExp10
       THEN [ok |-> TRUE, value |-> Infinity(negative)]
       ELSE IF mantissa = 0 \/ exp10 < MinExp10
       THEN [ok |-> TRUE, value |-> Finite(negative, 0, 0)]
       ELSE [ok |-> TRUE, value |-> Finite(negative, mantissa, scale)]

\* x <= 0 on floats: False when x is nan.
LeZero(x) ==
    CASE x.kind = "nan" -> FALSE
      [] x.kind = "inf" -> x.negative
      [] OTHER -> x.negative \/ x.mantissa = 0

\* The try block that makes total, and the one that makes concurrency:
\* int(v or 1), 1 when it is below 1, 1 when int() raises.
NormalizeCount(v) ==
    LET n == IF v.given /\ v.text # <<>> THEN IntOf(v.text)
             ELSE [ok |-> TRUE, value |-> 1]
    IN IF ~n.ok THEN 1 ELSE IF n.value < 1 THEN 1 ELSE n.value

\* The try block that makes timeout: float(v or 5.0), 5.0 when it is <= 0,
\* 5.0 when float() raises.
NormalizeTimeout(v) ==
    LET x == IF v.given /\ v.text # <<>> THEN FloatOf(v.text)
             ELSE [ok |-> TRUE, value |-> DefaultTimeout]
    IN IF ~x.ok THEN DefaultTimeout
       ELSE IF LeZero(x.value) THEN DefaultTimeout ELSE x.value

\* The raw values the operator may supply for "total" and "concurrency".
CountInputs ==
    {Missing,
     Given(<<>>),
     Given(<<" ">>),
     Given(<<"0">>),
     Given(<<"-", "1">>),
     Given(<<"3">>),
     Given(<<" ", "2", " ">>),
     Given(<<"+", "4">>),
     Given(<<"2", ".", "5">>),
     Given(<<"x">>)}

\* The raw values the operator may supply for "timeout".
TimeoutInputs ==
    {Missing,
     Given(<<>>),
     Given(<<"0">>),
     Given(<<"-", "1">>),
     Given(<<"2">>),
     Given(<<"0", ".", "5">>),
     Given(<<" ", "1", "0", " ">>),
     Given(<<"a", "b", "c">>),
     Given(<<"n", "a", "n">>),
     Given(<<"i", "n", "f">>),
     Given(<<"-", "i", "n", "f">>),
     Given(<<"1", "e", "1">>),
     Given(<<"-", "0", ".", "0">>)}

\* run(), from its entry to max_workers: total, concurrency and timeout are
\* made of the raw inputs, and the size of the pool of them.
Normalize ==
    /\ normalized = Pending
    /\ \E t \in CountInputs, c \in CountInputs, tm \in TimeoutInputs :
         /\ inputs' = [total |-> t, concurrency |-> c, timeout |-> tm]
         /\ normalized' =
              [total |-> NormalizeCount(t),
               concurrency |-> NormalizeCount(c),
               timeout |-> NormalizeTimeout(tm),
               max_workers |-> MaxWorkers(NormalizeCount(c), NormalizeCount(t))]
    /\ UNCHANGED <<pc_paste, pasted, headers>>
    /\ UNCHANGED <<intruderVars, cookieVars, mainVars, csvVars>>

CsvInit ==
    /\ clock = 0
    /\ files = <<>>
    /\ saves = <<>>

Init == IntruderInit /\ CookieInit /\ MainInit /\ CsvInit /\ InputsInit

Next ==
    \/ CookieStart
    \/ CookieRequest
    \/ RunStart
    \/ Submit
    \/ \E w \in 1..MaxConcurrency : WorkerStart(w)
    \/ \E w \in 1..MaxConcurrency : WorkerFinish(w)
    \/ \E i \in Indices : Collect(i)
    \/ Summarize

Spec == Init /\ [][Next]_vars

NextMain ==
    \/ MainStart
    \/ Choose
    \/ Execute

\* A step of a batch under way: of the coordinator thread, of the executor
\* handing queued work to an idle worker thread, or of a worker thread.
BatchStep ==
    \/ Submit
    \/ \E w \in 1..MaxConcurrency : WorkerStart(w)
    \/ \E w \in 1..MaxConcurrency : WorkerFinish(w)
    \/ \E i \in Indices : Collect(i)
    \/ Summarize

\* The scheduling of a batch: while a step of the batch is possible one is
\* taken; the threads run, and every request a worker started ends (with a
\* response, an error or its timeout).
Fairness == WF_vars(BatchStep)

SpecFair == Init /\ [][Next]_vars /\ Fairness

SpecMain == Init /\ [][NextMain]_vars

NextCsv ==
    \/ Tick
    \/ SaveResultCsv

SpecCsv == Init /\ [][NextCsv]_vars

NextHeaders ==
    \/ ReadLine
    \/ ParsePasted

SpecHeaders == Init /\ [][NextHeaders]_vars

NextNormalize == Normalize

SpecNormalize == Init /\ [][NextNormalize]_vars

\* ------------------------------------------------- properties of run()
IsSummary(r) == "requests_sent" \in DOMAIN r

\* The positions of results that hold the outcome of request i.
PositionsOf(i) == {k \in 1..Len(results) : results[k].index = i}

FailedPositions == {k \in 1..Len(results) : ~results[k].ok}
OkPositions == {k \in 1..Len(results) : results[k].ok}

RECURSIVE SumOver(_, _)
SumOver(f, keys) ==
    IF keys = {} THEN 0
    ELSE LET k == CHOOSE x \in keys : TRUE IN f[k] + SumOver(f, keys \ {k})

\* The requests a worker has started and not yet finished.
InFlight == {i \in DOMAIN done : attempts[i] > 0 /\ done[i] = Pending}

(* C1: no request is ever attempted twice, and when a batch of IntruderTest.run
   has returned its summary every index of 0..total-1 was attempted exactly
   once, no other index was attempted, and results holds exactly total
   outcomes, one for each index of 0..total-1. *)
C1_EachIndexOnce ==
    /\ \A i \in Indices : attempts[i] <= 1
    /\ IsSummary(ret) =>
         /\ \A i \in 0..(total - 1) : attempts[i] = 1
         /\ \A i \in Indices \ (0..(total - 1)) : attempts[i] = 0
         /\ Len(results) = total
         /\ \A i \in 0..(total - 1) : Cardinality(PositionsOf(i)) = 1

\* A batch of three requests on two threads has returned, with a failed and
\* a successful request, collected in another order than submitted.
C1_Witness ==
    /\ IsSummary(ret)
    /\ total = 3 /\ concurrency = 2
    /\ results[1].index # 0
    /\ FailedPositions # {} /\ OkPositions # {}

(* C2: every summary returned by IntruderTest.run has successes + failures =
   requests_sent = the number of collected outcomes, and requests_sent =
   total_requested (hence <=), a summary being returned only by a batch that
   ran to completion. *)
C2_SummaryCounts ==
    IsSummary(ret) =>
        /\ ret.successes + ret.failures = ret.requests_sent
        /\ ret.requests_sent = Len(results)
        /\ ret.requests_sent = Cardinality(yielded)
        /\ ret.requests_sent <= ret.total_requested
        /\ ret.requests_sent = ret.total_requested

\* A summary of three requests with successes and failures.
C2_Witness ==
    /\ IsSummary(ret)
    /\ ret.total_requested = 3
    /\ ret.successes > 0 /\ ret.failures > 0

(* C3: at every moment the number of requests in flight is at most
   min(concurrency, total). *)
C3_BoundedParallelism ==
    Cardinality(InFlight) <= Min(concurrency, total)

\* Two threads, three requests: two are in flight and the third one waits.
C3_Witness ==
    /\ concurrency = 2 /\ total = 3
    /\ Cardinality(InFlight) = 2
    /\ queue # <<>>

(* C4: IntruderTest.run never raises, and in every summary it returns errors
   is the number of failed outcomes, the values of status_counts sum to the
   number of successful outcomes, every failed outcome carries an elapsed
   time, and when every request failed successes = 0, failures = errors =
   total and status_counts is empty. *)
C4_FailuresStayInside ==
    /\ pc # "raised"
    /\ IsSummary(ret) =>
         /\ ret.errors = Cardinality(FailedPositions)
         /\ SumOver(ret.status_counts, DOMAIN ret.status_counts)
                = Cardinality(OkPositions)
         /\ \A k \in FailedPositions : "elapsed_seconds" \in DOMAIN results[k]
         /\ (\A i \in DOMAIN done : ~done[i].ok) =>
                /\ ret.successes = 0
                /\ ret.failures = total
                /\ ret.errors = total
                /\ ret.status_counts = <<>>

\* A summary of a batch of three requests that all failed.
C4_Witness ==
    /\ IsSummary(ret)
    /\ total = 3
    /\ \A i \in DOMAIN done : ~done[i].ok
    /\ ret.failures = 3

(* C7: when the target given is missing, empty or whitespace only, run() of
   either probe has returned a result with an error field, without asking
   for headers and without any HTTP request. *)
C7_BlankTarget ==
    (probe # "none" /\ blank_target) =>
        /\ pc = "returned"
        /\ "error" \in DOMAIN ret
        /\ header_prompts = 0
        /\ http_requests = 0

\* IntruderTest.run has returned for a blank target.
C7_Witness ==
    /\ probe = "intruder" /\ blank_target /\ pc = "returned"

\* CookieVerificationTest.run has returned for a blank target.
C7_WitnessCookie ==
    /\ probe = "cookie-verification" /\ blank_target /\ pc = "returned"

\* Equality of two names up to the case of their letters.
SameNameIgnoringCase(a, b) ==
    /\ Len(a) = Len(b)
    /\ \A k \in 1..Len(a) : LowerChar(a[k]) = LowerChar(b[k])

\* Whether the cookie's name is an entry of the exclusion list given.
Excluded(cookie) ==
    LET entries == ExcludeNamesOf[exclude_input] IN
    \E k \in 1..Len(entries) : SameNameIgnoringCase(cookie.name, entries[k])

\* The attributes Secure, HttpOnly, SameSite the cookie lacks, in this order.
Lacking(cookie) ==
    LET lacks == [a \in {"Secure", "HttpOnly", "SameSite"} |->
                    CASE a = "Secure" -> ~cookie.flags.secure
                      [] a = "HttpOnly" -> ~cookie.flags.httponly
                      [] a = "SameSite" -> cookie.flags.samesite = NoneStr]
        F(a) == IF lacks[a] THEN <<a>> ELSE <<>>
    IN F("Secure") \o F("HttpOnly") \o F("SameSite")

\* Whether a warning is due for the cookie: not excluded, and lacking an
\* attribute.
WarningDue(cookie) == ~Excluded(cookie) /\ Lacking(cookie) # <<>>

(* C8: in a result of CookieVerificationTest.run after a response, every
   parsed cookie that is not excluded and lacks an attribute has exactly one
   warning, which names it and lists all the attributes it lacks, and there
   is no other warning: the warnings are, in the order of the cookies, those
   of the cookies a warning is due for. Excluded cookies and cookies with
   the three attributes have none. *)
C8_CookieWarnings ==
    (probe = "cookie-verification" /\ response.kind = "response") =>
        LET W == ret.warnings
            C == ret.cookies
            due == [k \in 1..Len(C) |-> WarningDue(C[k])]
            \* the number of warnings due for the cookies 1..k
            rank == [k \in 0..Len(C) |-> Cardinality({j \in 1..k : due[j]})]
        IN /\ Len(C) = Len(response.set_cookie)
           /\ Len(W) = rank[Len(C)]
           /\ \A k \in 1..Len(C) :
                due[k] => /\ rank[k] <= Len(W)
                          /\ W[rank[k]].cookie = C[k].name
                          /\ W[rank[k]].missing = Lacking(C[k])

\* Two cookies, the first with no attribute and not excluded, the second
\* excluded by an entry written in another case: one warning, for the first,
\* with the three attributes.
C8_Witness ==
    /\ probe = "cookie-verification" /\ response.kind = "response"
    /\ Len(ret.cookies) = 2
    /\ ret.cookies[1].name = <<"t", "k">>
    /\ ret.cookies[2].name = <<"S", "i", "D">>
    /\ exclude_input = Given(<<"s", "i", "d">>)
    /\ ~ret.cookies[2].flags.secure
    /\ ret.warnings = <<[cookie |-> <<"t", "k">>,
                         missing |-> <<"Secure", "HttpOnly", "SameSite">>]>>

(* C9: when the request of CookieVerificationTest.run failed, run has
   returned a result with an error and a duration_seconds field, empty
   raw_set_cookie_headers, cookies and warnings, and no status_code, and no
   step after the request was executed. *)
C9_RequestFailure ==
    (probe = "cookie-verification" /\ response.kind = "exception") =>
        /\ pc = "returned"
        /\ {"error", "duration_seconds"} \subseteq DOMAIN ret
        /\ ret.raw_set_cookie_headers = <<>>
        /\ ret.cookies = <<>>
        /\ ret.warnings = <<>>
        /\ "status_code" \notin DOMAIN ret
        /\ steps = {"request"}

\* The request of the cookie probe failed and run() has returned.
C9_Witness ==
    /\ probe = "cookie-verification" /\ response.kind = "exception"
    /\ pc = "returned"
    /\ http_requests = 1

\* --------------------------------------- properties of discovery and main
\* A module discovery has to load: not private, and its import succeeds.
Loadable(m) == ~modules[m].private /\ modules[m].import_ok

\* The probes module m holds: its "test" instance, or else one for each of
\* its classes that can be constructed.
ProbesOf(m) ==
    IF ~Loadable(m) THEN {}
    ELSE IF modules[m].test = "instance" THEN {Probe(m, 0)}
    ELSE {Probe(m, k) : k \in {j \in 1..Len(modules[m].classes) :
                                  modules[m].classes[j] = "concrete"}}

\* Discovery order: by module, and within a module by class.
Before(p, q) ==
    \/ p.module < q.module
    \/ p.module = q.module /\ p.origin < q.origin

(* C5: discover_tests never raises, and the list it returns holds, once each
   and in discovery order, exactly the probes of the modules that load: a
   module whose import fails and a class whose construction fails are left
   out and nothing else is. (With nothing to load the list is empty.) *)
C5_DiscoveryIsolatesFailures ==
    /\ pc_main # "crashed"
    /\ pc_main # "start" =>
         /\ \A k \in 1..Len(tests) : tests[k] \in ProbesOf(tests[k].module)
         /\ \A m \in 1..Len(modules) : \A p \in ProbesOf(m) :
                Cardinality({k \in 1..Len(tests) : tests[k] = p}) = 1
         /\ \A j, k \in 1..Len(tests) : j < k => Before(tests[j], tests[k])
         /\ (pc_main = "no_tests") = (tests = <<>>)

\* One module whose import fails among three that hold a probe: the three
\* probes are listed.
C5_Witness ==
    /\ pc_main = "menu"
    /\ Len(modules) = 4
    /\ ~modules[2].import_ok
    /\ \A m \in {1, 3, 4} : Loadable(m) /\ ProbesOf(m) # {}
    /\ Len(tests) = 3

(* C6: the loop of main ends only on the choice "0"; after a probe was
   selected the next state is the menu again, over the same list of probes,
   with the error logged when a step of the execution raised; no step of
   main ends the process with an error. *)
C6_LoopSurvivesProbeFailure ==
    [][/\ pc_main' = "exited" => (pc_main = "menu" /\ choice' = <<"0">>)
       /\ (pc_main = "menu" /\ choice' = <<"0">>) => pc_main' = "exited"
       /\ pc_main = "selected" =>
            /\ pc_main' = "menu"
            /\ tests' = tests
            /\ raised_step' # "none" => last_event' = "error_logged"
       /\ pc_main' # "crashed"]_vars

\* The save step of an execution raised; the menu is shown again.
C6_Witness ==
    /\ pc_main = "menu"
    /\ raised_step = "save"
    /\ last_event = "error_logged"
    /\ Len(tests) > 1

\* --------------------------------------------- properties of the CSV files
\* The keys in strictly ascending order.
Ascending(keys) ==
    \A k \in 1..(Len(keys) - 1) : LexLess(keys[k], keys[k + 1])

\* Two results were written for the same probe name, with the same filename
\* argument.
TwoSavesOfOneProbe ==
    /\ Len(saves) = 2
    /\ saves[1].test_name = saves[2].test_name
    /\ saves[1].filename = saves[2].filename

(* C10: after two results were written for the same probe name there is one
   file, and it holds one header row followed by two data rows, the columns
   of both data rows being the sorted key set of the first result; a header
   row is written only when the file does not exist yet. *)
C10_CsvAppend ==
    /\ \A k \in 1..Len(saves) :
         saves[k].wrote_header =>
            \A j \in 1..(k - 1) : saves[j].path # saves[k].path
    /\ TwoSavesOfOneProbe =>
         LET f == saves[1].path
             first_keys == files[f][1].cells
         IN /\ DOMAIN files = {f}
            /\ Len(files[f]) = 3
            /\ files[f][1].kind = "header"
            /\ files[f][2].kind = "data" /\ files[f][3].kind = "data"
            /\ Ascending(first_keys)
            /\ {first_keys[k] : k \in 1..Len(first_keys)} = DOMAIN saves[1].result
            /\ files[f][2].columns = first_keys
            /\ files[f][3].columns = first_keys

\* What the code does give: two results with the same keys that go to the
\* same path make one header row and two data rows in the header's order.
C10_SamePathSameKeys ==
    (/\ TwoSavesOfOneProbe
     /\ saves[1].path = saves[2].path
     /\ DOMAIN saves[1].result = DOMAIN saves[2].result) =>
        LET rows == files[saves[1].path] IN
        /\ Len(rows) = 3
        /\ rows[1].kind = "header" /\ Ascending(rows[1].cells)
        /\ rows[2].kind = "data" /\ rows[2].columns = rows[1].cells
        /\ rows[3].kind = "data" /\ rows[3].columns = rows[1].cells


\* ------------------------------------------ properties of _parse_headers
\* The pasted lines that are neither request lines nor without a colon, in
\* paste order.
KeptLines == SelectSeq(pasted, LAMBDA l : ~IsRequestLine(Strip(l)) /\ Contains(l, ":"))

\* The key and the value a header line gives.
KeyOf(l) == Strip(SubSeq(l, 1, IndexOf(l, ":") - 1))
ValueOf(l) == LStrip(Strip(SubSeq(l, IndexOf(l, ":") + 1, Len(l))))

\* The values the pasted lines give for a key, in paste order.
RECURSIVE ValuesIn(_, _)
ValuesIn(lines, key) ==
    IF lines = <<>> THEN <<>>
    ELSE (IF KeyOf(Head(lines)) = key THEN <<ValueOf(Head(lines))>> ELSE <<>>)
            \o ValuesIn(Tail(lines), key)

\* The values joined with a separator.
RECURSIVE JoinWith(_, _)
JoinWith(values, sep) ==
    IF values = <<>> THEN <<>>
    ELSE IF Len(values) = 1 THEN values[1]
    ELSE values[1] \o sep \o JoinWith(Tail(values), sep)

kCookie == <<"C", "o", "o", "k", "i", "e">>

(* C11: once _parse_headers has returned, request lines and lines without a
   colon have given no entry, and every key of the other lines has a single
   entry, whose value is the values of that key in paste order joined with
   "; " when the key is Cookie and with ", " for any other key. *)
C11_HeaderMerge ==
    pc_paste = "parsed" =>
        /\ DOMAIN headers = {KeyOf(KeptLines[k]) : k \in 1..Len(KeptLines)}
        /\ \A key \in DOMAIN headers :
             headers[key] = JoinWith(ValuesIn(KeptLines, key),
                                     IF key = kCookie THEN SepCookie ELSE SepOther)

\* The same for the keys other than Cookie, and for a Cookie key whose values
\* are not empty and do not end in ";".
C11_PlainValuesJoined ==
    pc_paste = "parsed" =>
        /\ DOMAIN headers = {KeyOf(KeptLines[k]) : k \in 1..Len(KeptLines)}
        /\ \A key \in DOMAIN headers :
             LET values == ValuesIn(KeptLines, key) IN
             (\A k \in 1..Len(values) :
                 values[k] # <<>> /\ values[k][Len(values[k])] # ";")
             => headers[key] = JoinWith(values,
                                   IF key = kCookie THEN SepCookie ELSE SepOther)


\* --------------------------------------- properties of the normalisation
\* x > 0 on floats
Positive(x) ==
    CASE x.kind = "nan" -> FALSE
      [] x.kind = "inf" -> ~x.negative
      [] OTHER -> ~x.negative /\ x.mantissa > 0

\* Whether the raw input is given, not empty, and int() raises on it.
IntFails(v) == v.given /\ v.text # <<>> /\ ~IntOf(v.text).ok

\* Whether the raw input is given, not empty, and float() raises on it or
\* makes a value that is not positive.
FloatFailsOrNotPositive(v) ==
    v.given /\ v.text # <<>>
        /\ (~FloatOf(v.text).ok \/ ~Positive(FloatOf(v.text).value))

(* C12: whatever the raw total, concurrency and timeout, the normalisation
   of IntruderTest.run ends (it does not raise) with total an integer >= 1,
   1 when int() failed, concurrency an integer >= 1, 1 when int() failed,
   timeout > 0, 5.0 when float() failed or gave a value that is not
   positive, and so with a pool size min(concurrency, total) >= 1. *)
C12_Coercion ==
    normalized # Pending =>
        /\ normalized.total \in Nat /\ normalized.total >= 1
        /\ IntFails(inputs.total) => normalized.total = 1
        /\ normalized.concurrency \in Nat /\ normalized.concurrency >= 1
        /\ IntFails(inputs.concurrency) => normalized.concurrency = 1
        /\ Positive(normalized.timeout)
        /\ FloatFailsOrNotPositive(inputs.timeout)
              => normalized.timeout = DefaultTimeout
        /\ normalized.max_workers >= 1

\* The part of C12 about total, concurrency and the pool size, and the
\* timeout whenever float() does not give nan.
C12_CountsCoerced ==
    normalized # Pending =>
        /\ normalized.total \in Nat /\ normalized.total >= 1
        /\ IntFails(inputs.total) => normalized.total = 1
        /\ normalized.concurrency \in Nat /\ normalized.concurrency >= 1
        /\ IntFails(inputs.concurrency) => normalized.concurrency = 1
        /\ normalized.max_workers >= 1
        /\ normalized.timeout # NaN => Positive(normalized.timeout)


\* ------------------------------------------- properties of the coordinator
\* The batch of IntruderTest.run is under way: the pool exists and run() has
\* not returned.
BatchUnderWay == probe = "intruder" /\ pc \in {"submit", "collect"}

(* C13: the coordinator of a batch of IntruderTest.run waits for every
   request: a summary is returned only when all the total futures are done
   and their outcomes collected, with nothing queued or in flight; the
   collecting loop is left only to return, after total outcomes, whatever
   the outcomes were; and, every request that was started coming to its
   end, a batch under way leads to the return of the summary. *)
C13_BlocksUntilAll ==
    /\ [](IsSummary(ret) =>
            /\ yielded = 0..(total - 1)
            /\ \A i \in 0..(total - 1) : done[i] # Pending /\ attempts[i] = 1
            /\ queue = <<>> /\ InFlight = {}
            /\ Len(results) = total)
    /\ [][pc = "collect" /\ pc' # "collect"
            => pc' = "returned" /\ IsSummary(ret') /\ Len(results) = total]_vars
    /\ (BatchUnderWay ~> (pc = "returned" /\ IsSummary(ret)))

\* A batch of three requests whose first collected outcome was a failure has
\* gone on and returned its summary, a request having succeeded afterwards.
C13_Witness ==
    /\ IsSummary(ret) /\ pc = "returned"
    /\ total = 3
    /\ ~results[1].ok
    /\ results[3].ok


\* ----------------------------------- properties of the shared containers
\* The sum of the values of the histogram.
Counted(counter) == SumOver(counter, DOMAIN counter)

\* Whether a step changes one of the four shared containers.
Folds ==
    \/ results' # results
    \/ status_counter' # status_counter
    \/ errors' # errors
    \/ latencies' # latencies

(* C14: results, status_counter, errors and latencies of a batch of
   IntruderTest.run change only in the step that folds one completed outcome
   in (the body under _LOCK), which adds one outcome to each; so at every
   moment, whatever the order in which the workers finished,
   len(results) = sum of the values of status_counter + errors =
   len(latencies) = the number of outcomes collected, and once the summary
   is returned that number is total. *)
C14_NoLostUpdate ==
    /\ [](probe = "intruder" =>
            /\ Len(results) = Counted(status_counter) + errors
            /\ Len(results) = Len(latencies)
            /\ Len(results) = Cardinality(yielded)
            /\ IsSummary(ret) => Len(results) = total)
    /\ [][Folds =>
            /\ pc = "collect"
            /\ Cardinality(yielded') = Cardinality(yielded) + 1
            /\ Len(results') = Len(results) + 1
            /\ Counted(status_counter') + errors'
                  = Counted(status_counter) + errors + 1
            /\ Len(latencies') = Len(latencies) + 1]_vars

\* Three outcomes are folded in and the summary is not made yet: a failure
\* between two responses with the same status code, the request submitted
\* last collected first.
C14_Witness ==
    /\ probe = "intruder" /\ pc = "collect"
    /\ total = 3 /\ Len(results) = 3
    /\ results[1].index = 2
    /\ results[1].ok /\ ~results[2].ok /\ results[3].ok
    /\ results[1].status_code = results[3].status_code
    /\ errors = 1

=============================================================================
